---- MODULE Spec2Model ----
(***************************************************************************)
(* The learning-update core of SAC and DisCor (discor/algorithm/sac.py,    *)
(* discor/algorithm/discor.py) as a state machine.                         *)
(*                                                                         *)
(* Numbers.  A tensor element is an integer, or NaN for a non-finite       *)
(* float (inf and nan are not told apart: every operation the learner      *)
(* applies to a non-finite operand yields a non-finite result, 0 * inf     *)
(* included).  exp is base 2 on a fixed-point scale of 2^ExpRange units    *)
(* per 1.0, underflowing to 0 below -ExpRange and overflowing above        *)
(* +ExpRange, as a float's exponent does.  Products with a fraction round  *)
(* down.                                                                   *)
(*                                                                         *)
(* Networks.  discor.network is not part of the sources; every head is a   *)
(* one-parameter estimator  f(s, a) = theta + s  and the policy's entropy  *)
(* is  h + s.  A twin network is the pair of its heads' parameters.        *)
(***************************************************************************)
EXTENDS Integers, Sequences, FiniteSets, TLC

VARIABLES self, pre, call, writer

vars == <<self, pre, call, writer>>

\* ------------------------------------------------------------- bounds
\* learn() calls in a run, rows in a batch, consecutive update_target() calls,
\* and the exponent range of a float
MaxSteps == 2

MaxBatch == 2

MaxTargetRun == 1

ExpRange == 2

\* ------------------------------------------------------------ numbers
NaN == 0 - 1000000

Fin(x) == x # NaN

Add(a, b) == IF Fin(a) /\ Fin(b) THEN a + b ELSE NaN

Sub(a, b) == IF Fin(a) /\ Fin(b) THEN a - b ELSE NaN

Mul(a, b) == IF Fin(a) /\ Fin(b) THEN a * b ELSE NaN

Neg(a) == IF Fin(a) THEN 0 - a ELSE NaN

Abs(a) == IF ~Fin(a) THEN NaN ELSE IF a < 0 THEN 0 - a ELSE a

Min(a, b) == IF Fin(a) /\ Fin(b) THEN (IF a <= b THEN a ELSE b) ELSE NaN

Sign(a) == IF ~Fin(a) THEN NaN ELSE IF a > 0 THEN 1 ELSE IF a < 0 THEN 0 - 1 ELSE 0

\* a / b rounded down; a zero divisor gives a non-finite quotient
Div(a, b) ==
    IF ~Fin(a) \/ ~Fin(b) \/ b = 0 THEN NaN
    ELSE IF b > 0 THEN a \div b ELSE (0 - a) \div (0 - b)

\* (num/den) * x rounded down
Frac(num, den, x) == IF Fin(x) THEN (num * x) \div den ELSE NaN

One == 2 ^ ExpRange

\* torch.exp, in units of 1/One
Exp(x) ==
    IF ~Fin(x) THEN NaN
    ELSE IF x > ExpRange THEN NaN
    ELSE IF x < 0 - ExpRange THEN 0
    ELSE 2 ^ (x + ExpRange)

\* a value on the 1/One scale times a number
Scaled(u, x) == Div(Mul(u, x), One)

\* ------------------------------------------------------------ tensors
\* a [B,1] tensor is a sequence of B numbers
Bcast(m, n) == m = n \/ m = 1 \/ n = 1

BLen(m, n) == IF m = 1 THEN n ELSE m

At(v, i) == IF Len(v) = 1 THEN v[1] ELSE v[i]

VAdd(a, b) == [i \in 1..BLen(Len(a), Len(b)) |-> Add(At(a, i), At(b, i))]

VSub(a, b) == [i \in 1..BLen(Len(a), Len(b)) |-> Sub(At(a, i), At(b, i))]

VMul(a, b) == [i \in 1..BLen(Len(a), Len(b)) |-> Mul(At(a, i), At(b, i))]

VMin(a, b) == [i \in 1..BLen(Len(a), Len(b)) |-> Min(At(a, i), At(b, i))]

VAbs(a) == [i \in 1..Len(a) |-> Abs(a[i])]

VNeg(a) == [i \in 1..Len(a) |-> Neg(a[i])]

VShift(a, c) == [i \in 1..Len(a) |-> Add(a[i], c)]

RECURSIVE Sum(_)
Sum(v) == IF Len(v) = 0 THEN 0 ELSE Add(v[1], Sum(Tail(v)))

Mean(v) == Div(Sum(v), Len(v))

AllFin(v) == \A i \in 1..Len(v) : Fin(v[i])

\* ------------------------------------------------------ configuration
\* discount factor gamma = DiscNum/DiscDen held by the base learner
DiscNum == 1

DiscDen == 2

\* target_update_coef = CoefNum/CoefDen
CoefNum == 1

CoefDen == 2

\* action_dim
ActionDim == 1

\* the learners a run may start from: algorithm, initial parameters of the
\* twin critic and of the twin error network, tau_init, log_interval
Configs ==
    { <<"SAC",    <<0, 1>>, <<1, 0>>, 1, 2>>,
      <<"SAC",    <<2, 0>>, <<1, 0>>, 1, 1>>,
      <<"DisCor", <<0, 1>>, <<1, 0>>, 2, 2>>,
      <<"DisCor", <<2, 0>>, <<1, 0>>, 1, 1>>,
      <<"DisCor", <<0, 1>>, <<9, 1>>, 1, 2>> }

TauInits == {cfg[4] : cfg \in Configs}

\* --------------------------------------------------------- the batch
\* the replay buffer: state, reward, next state, done of each transition
Buffer ==
    << [state |-> 0, reward |-> 1, next_state |-> 1, done |-> 0],
       [state |-> 1, reward |-> 1, next_state |-> 0, done |-> 1],
       [state |-> 2, reward |-> 0, next_state |-> 1, done |-> 0] >>

\* n consecutive transitions from position k on
Window(k, n) == [i \in 1..n |-> Buffer[((k + i - 2) % Len(Buffer)) + 1]]

MkBatch(rows) ==
    [ states      |-> [i \in 1..Len(rows) |-> rows[i].state],
      rewards     |-> [i \in 1..Len(rows) |-> rows[i].reward],
      next_states |-> [i \in 1..Len(rows) |-> rows[i].next_state],
      dones       |-> [i \in 1..Len(rows) |-> rows[i].done] ]

WellFormed == {MkBatch(Window(k, n)) : k \in 1..Len(Buffer), n \in 1..MaxBatch}

\* batches whose states/actions hold fewer or more rows than the rest
Malformed ==
    { [b EXCEPT !.states = SubSeq(b.states, 1, Len(b.states) - 1)] :
          b \in {MkBatch(Window(1, n)) : n \in 2..MaxBatch} }
    \cup
    { [b EXCEPT !.states = b.states \o b.states] : b \in {MkBatch(Window(1, 1))} }

Batches == WellFormed \cup Malformed

NoBatch == [states |-> <<>>, rewards |-> <<>>, next_states |-> <<>>, dones |-> <<>>]

\* ---------------------------------------------------------- networks
Nets == {"policy_net", "online_q_net", "target_q_net", "log_alpha",
         "online_error_net", "target_error_net"}

Losses == {"policy", "q", "entropy", "error"}

\* TwinnedStateActionFunction.forward: one estimate per head and row
Twin(theta, states) == <<VShift(states, theta[1]), VShift(states, theta[2])>>

\* GaussianPolicy.forward: the entropy estimate of each row
PolicyEntropies(theta, states) == VShift(states, theta[1])

ZeroGrad(theta) == [from |-> {}, val |-> [i \in 1..Len(theta) |-> 0]]

\* disable_gradients(target): every other parameter tensor requires grad
RequiresGradSAC == Nets \ {"target_q_net", "target_error_net", "online_error_net"}

RequiresGradDisCor == Nets \ {"target_q_net", "target_error_net"}

RequiresGrad(s) == IF s.algo = "DisCor" THEN RequiresGradDisCor ELSE RequiresGradSAC

\* faulty variant: the policy optimizer built over the online critic's parameters too
policy_optim_with_critic == {"policy_net", "online_q_net"}

\* the parameter group each Adam optimizer was built over
policy_optim == {"policy_net"}

q_optim == {"online_q_net"}

alpha_optim == {"log_alpha"}

error_optim == {"online_error_net"}

OptimParams(o) ==
    CASE o = "policy_optim" -> policy_optim
      [] o = "q_optim"      -> q_optim
      [] o = "alpha_optim"  -> alpha_optim
      [] o = "error_optim"  -> error_optim

Optims == {"policy_optim", "q_optim", "alpha_optim", "error_optim"}

\* SAC.__init__ / DisCor.__init__
NewLearner(algo, q0, e0, tau_init, log_interval) ==
    LET nets == [ policy_net       |-> <<0>>,
                  online_q_net     |-> q0,
                  target_q_net     |-> q0,
                  online_error_net |-> e0,
                  target_error_net |-> e0,
                  log_alpha        |-> <<0>> ]
    IN  [ algo             |-> algo,
          policy_net       |-> nets.policy_net,
          online_q_net     |-> nets.online_q_net,
          target_q_net     |-> nets.target_q_net,
          online_error_net |-> nets.online_error_net,
          target_error_net |-> nets.target_error_net,
          log_alpha        |-> nets.log_alpha,
          alpha            |-> Exp(nets.log_alpha[1]),
          tau1             |-> tau_init,
          tau2             |-> tau_init,
          discount         |-> <<DiscNum, DiscDen>>,
          gamma            |-> <<DiscNum, DiscDen>>,
          target_update_coef |-> <<CoefNum, CoefDen>>,
          target_entropy   |-> 0 - ActionDim,
          log_interval     |-> log_interval,
          learning_steps   |-> 0,
          grad             |-> [n \in Nets |-> ZeroGrad(nets[n])],
          optim_steps      |-> [o \in Optims |-> 0] ]

\* ----------------------------------------------------------- utilities
\* soft_update(target, source, tau): target <- (1 - tau) * target + tau * source
soft_update(target, source, coef) ==
    [i \in 1..Len(target) |->
        IF Fin(target[i]) /\ Fin(source[i])
        THEN ((coef[2] - coef[1]) * target[i] + coef[1] * source[i]) \div coef[2]
        ELSE NaN]

\* an Adam step of one learning-rate unit against the gradient
AdamStep(theta, g) == [i \in 1..Len(theta) |-> Sub(theta[i], Sign(g[i]))]

\* update_params(optim, loss): optim.zero_grad(); loss.backward(); optim.step()
\* contrib maps each leaf of the loss's graph to d loss / d leaf
update_params(s, optim, lossname, contrib) ==
    LET group  == OptimParams(optim)
        zeroed == [n \in Nets |->
                     IF n \in group THEN ZeroGrad(s[n]) ELSE s.grad[n]]
        back   == [n \in Nets |->
                     IF n \in (DOMAIN contrib) \cap RequiresGrad(s)
                     THEN [from |-> zeroed[n].from \cup {lossname},
                           val  |-> VAdd(zeroed[n].val, contrib[n])]
                     ELSE zeroed[n]]
        moved  == {n \in group : back[n].from # {}}
    IN  [f \in DOMAIN s |->
           IF f \in moved THEN AdamStep(s[f], back[f].val)
           ELSE IF f = "grad" THEN back
           ELSE IF f = "optim_steps" THEN [s.optim_steps EXCEPT ![optim] = @ + 1]
           ELSE s[f]]

\* what the step of optim applied: (parameter tensor, loss it came from)
AppliedBy(s, optim, lossname, contrib) ==
    LET after == update_params(s, optim, lossname, contrib).grad
    IN  UNION { {<<optim, n, l>> : l \in after[n].from} : n \in OptimParams(optim) }

\* ------------------------------------------------------- SAC (sac.py)
\* an importance weight tensor num/den; the default argument is the float 1.0
FloatOne == [float |-> TRUE, num |-> <<1>>, den |-> 1]

\* (1.0 - done) * factor * x
Bootstrap(done, factor, x) ==
    IF Fin(x) THEN ((1 - done) * factor[1] * x) \div factor[2] ELSE NaN

calc_current_q(s, states) == Twin(s.online_q_net, states)

\* the value of calc_target_q; next_qs is built under torch.no_grad()
calc_target_q(s, rewards, next_states, dones) ==
    LET next_entropies == PolicyEntropies(s.policy_net, next_states)
        next_qs12 == Twin(s.target_q_net, next_states)
        next_qs == VAdd(VMin(next_qs12[1], next_qs12[2]),
                        [i \in 1..Len(next_entropies) |->
                            Scaled(s.alpha, next_entropies[i])])
    IN  [i \in 1..Len(rewards) |->
            Add(rewards[i], Bootstrap(At(dones, i), s.discount, At(next_qs, i)))]

\* assert rewards.shape == next_qs.shape
calc_target_q_raises(rewards, next_states) == Len(rewards) # Len(next_states)

\* leaves of the graph of target_qs that require grad: none under no_grad
calc_target_q_leaves(s) == {}

\* the three shape/grad assertions at the top of calc_q_loss
calc_q_loss_raises(curr_qs1, curr_qs2, target_qs, target_leaves, imp_ws1, imp_ws2) ==
    \/ ~(imp_ws1.float \/ Len(imp_ws1.num) = Len(curr_qs1))
    \/ ~(imp_ws2.float \/ Len(imp_ws2.num) = Len(curr_qs2))
    \/ target_leaves # {}
    \/ Len(curr_qs1) # Len(target_qs)

\* torch.mean((curr_qs - target_qs).pow(2) * imp_ws)
WeightedMse(curr_qs, target_qs, imp_ws) ==
    LET d == VSub(curr_qs, target_qs)
    IN  Div(Sum(VMul(VMul(d, d), imp_ws.num)), Mul(imp_ws.den, Len(d)))

\* d WeightedMse / d theta, up to a positive factor
WeightedMseGrad(curr_qs, target_qs, imp_ws) ==
    Sum(VMul(VSub(curr_qs, target_qs), imp_ws.num))

calc_q_loss(curr_qs1, curr_qs2, target_qs, imp_ws1, imp_ws2) ==
    [ loss    |-> Add(WeightedMse(curr_qs1, target_qs, imp_ws1),
                      WeightedMse(curr_qs2, target_qs, imp_ws2)),
      mean_q1 |-> Mean(curr_qs1),
      mean_q2 |-> Mean(curr_qs2),
      leaves  |-> [n \in {"online_q_net"} |->
                     << WeightedMseGrad(curr_qs1, target_qs, imp_ws1),
                        WeightedMseGrad(curr_qs2, target_qs, imp_ws2) >>] ]

calc_policy_loss(s, states) ==
    LET entropies == PolicyEntropies(s.policy_net, states)
        qs12 == Twin(s.online_q_net, states)
        qs == VMin(qs12[1], qs12[2])
        q1 == s.online_q_net[1]
        q2 == s.online_q_net[2]
        bonus == [i \in 1..Len(entropies) |-> Scaled(s.alpha, entropies[i])]
    IN  [ loss      |-> Mean(VSub(VNeg(qs), bonus)),
          entropies |-> entropies,
          critic    |-> s.online_q_net,
          leaves    |->
            [n \in {"policy_net", "online_q_net", "log_alpha"} |->
               CASE n = "policy_net"   -> << Neg(s.alpha) >>
                 [] n = "online_q_net" ->
                      << IF ~Fin(Min(q1, q2)) THEN NaN
                         ELSE IF q1 <= q2 THEN 0 - 1 ELSE 0,
                         IF ~Fin(Min(q1, q2)) THEN NaN
                         ELSE IF q2 <= q1 THEN 0 - 1 ELSE 0 >>
                 [] n = "log_alpha"    ->
                      << Neg(Scaled(s.alpha, Sum(entropies))) >>] ]

calc_entropy_loss(s, entropies) ==
    LET gap == [i \in 1..Len(entropies) |-> Sub(s.target_entropy, entropies[i])]
    IN  [ loss   |-> Neg(Mean([i \in 1..Len(gap) |-> Mul(s.log_alpha[1], gap[i])])),
          leaves |-> [n \in {"log_alpha"} |-> << Neg(Sum(gap)) >>] ]

\* SAC.update_target_networks
update_target_networks(s) ==
    [s EXCEPT !.target_q_net =
        soft_update(s.target_q_net, s.online_q_net, s.target_update_coef)]

\* Algorithm.update_target: one Polyak step for the learner's target networks
Algorithm_update_target(s) == update_target_networks(s)

\* --------------------------------------------------- DisCor (discor.py)
\* exp(-gamma * errs.detach() / tau), then divided by its batch sum
ImportanceWeights(s, errs, tau) ==
    LET raw == [i \in 1..Len(errs) |->
                   Exp(Div(Neg(Frac(s.gamma[1], s.gamma[2], errs[i])), tau))]
        total == Sum(raw)
    IN  IF Fin(total) /\ total # 0
        THEN [float |-> FALSE, num |-> raw, den |-> total]
        ELSE [float |-> FALSE, num |-> [i \in 1..Len(errs) |-> NaN], den |-> 1]

calc_current_error(s, states) ==
    LET errs == Twin(s.online_error_net, states)
    IN  [ curr_errs1 |-> errs[1],
          curr_errs2 |-> errs[2],
          imp_ws1    |-> ImportanceWeights(s, errs[1], s.tau1),
          imp_ws2    |-> ImportanceWeights(s, errs[2], s.tau2),
          imp_leaves |-> {} ]

TargetError(s, curr_qs, target_qs, next_errs, dones) ==
    LET gap == VAbs(VSub(curr_qs, target_qs))
    IN  [i \in 1..Len(gap) |->
            Add(gap[i], Bootstrap(At(dones, i), s.gamma, At(next_errs, i)))]

calc_target_error(s, next_states, dones, curr_qs1, curr_qs2, target_qs) ==
    LET next_errs == Twin(s.target_error_net, next_states)
    IN  << TargetError(s, curr_qs1, target_qs, next_errs[1], dones),
           TargetError(s, curr_qs2, target_qs, next_errs[2], dones) >>

\* [B,1] - [B',1] with B, B' different and neither 1 cannot be broadcast
calc_target_error_raises(curr_qs1, target_qs) ==
    ~Bcast(Len(curr_qs1), Len(target_qs))

\* faulty variant: the batch sum of the error estimates in place of their mean
TauRefresh_sum(tau, curr_errs, coef) ==
    LET m == Sum(curr_errs)
    IN  IF Fin(tau) /\ Fin(m)
        THEN ((coef[2] - coef[1]) * tau + coef[1] * m) \div coef[2]
        ELSE NaN

\* tau <- tau * (1 - c) + mean(curr_errs.detach()) * c
TauRefresh(tau, curr_errs, coef) ==
    LET m == Mean(curr_errs)
    IN  IF Fin(tau) /\ Fin(m)
        THEN ((coef[2] - coef[1]) * tau + coef[1] * m) \div coef[2]
        ELSE NaN

Mse(a, b) == LET d == VSub(a, b) IN Mean(VMul(d, d))

calc_error_loss(s, curr_errs1, curr_errs2, target_errs1, target_errs2) ==
    [ loss   |-> Add(Mse(curr_errs1, target_errs1), Mse(curr_errs2, target_errs2)),
      tau1   |-> TauRefresh(s.tau1, curr_errs1, s.target_update_coef),
      tau2   |-> TauRefresh(s.tau2, curr_errs2, s.target_update_coef),
      leaves |-> [n \in {"online_error_net"} |->
                    << Sum(VSub(curr_errs1, target_errs1)),
                       Sum(VSub(curr_errs2, target_errs2)) >>] ]

\* faulty variant: the target error network left out of the update
DisCor_update_target_critic_only(s) == Algorithm_update_target(s)

\* DisCor.update_target
DisCor_update_target(s) ==
    LET base == Algorithm_update_target(s)
    IN  [base EXCEPT !.target_error_net =
            soft_update(base.target_error_net, base.online_error_net,
                        base.target_update_coef)]

\* -------------------------------------------------------------- learn
\* the locals of one learn() call: c.s is the learner as the call has left it
Locals(s) ==
    [ s |-> s, outcome |-> "ok", raised_in |-> "none", events |-> <<>>,
      applied |-> {}, logged |-> <<>>,
      curr_qs1 |-> <<>>, curr_qs2 |-> <<>>, target_qs |-> <<>>, target_leaves |-> {},
      curr_errs1 |-> <<>>, curr_errs2 |-> <<>>,
      imp_ws1 |-> FloatOne, imp_ws2 |-> FloatOne, imp_leaves |-> {},
      target_errs1 |-> <<>>, target_errs2 |-> <<>>,
      entropies |-> <<>>, policy_critic |-> <<>>,
      policy_loss |-> 0, q_loss |-> 0, entropy_loss |-> 0, err_loss |-> 0,
      q_loss_args |-> <<>>, err_loss_args |-> <<>>, tau_seen |-> <<>>,
      policy_deposit |-> {} ]

Done(c, event) == [c EXCEPT !.events = Append(@, event)]

Raise(c, kind, where) == [c EXCEPT !.outcome = kind, !.raised_in = where]

\* self._learning_steps += 1
learn_count(c, batch) ==
    Done([c EXCEPT !.s.learning_steps = @ + 1], "count")

\* curr_qs1, curr_qs2 = self.calc_current_q(states, actions)
learn_current_q(c, batch) ==
    LET qs == calc_current_q(c.s, batch.states)
    IN  Done([c EXCEPT !.curr_qs1 = qs[1], !.curr_qs2 = qs[2]], "current_q")

\* target_qs = self.calc_target_q(rewards, next_states, dones)
learn_target_q(c, batch) ==
    IF calc_target_q_raises(batch.rewards, batch.next_states)
    THEN Raise(c, "AssertionError", "calc_target_q")
    ELSE Done([c EXCEPT
                 !.target_qs = calc_target_q(c.s, batch.rewards,
                                             batch.next_states, batch.dones),
                 !.target_leaves = calc_target_q_leaves(c.s)], "target_q")

\* curr_errs1, curr_errs2, imp_ws1, imp_ws2 = self.calc_current_error(...)
learn_current_error(c, batch) ==
    LET r == calc_current_error(c.s, batch.states)
    IN  Done([c EXCEPT !.curr_errs1 = r.curr_errs1, !.curr_errs2 = r.curr_errs2,
                       !.imp_ws1 = r.imp_ws1, !.imp_ws2 = r.imp_ws2,
                       !.imp_leaves = r.imp_leaves,
                       !.tau_seen = <<c.s.tau1, c.s.tau2>>], "current_error")

\* target_errs1, target_errs2 = self.calc_target_error(...)
learn_target_error(c, batch) ==
    IF calc_target_error_raises(c.curr_qs1, c.target_qs)
    THEN Raise(c, "RuntimeError", "calc_target_error")
    ELSE LET r == calc_target_error(c.s, batch.next_states, batch.dones,
                                    c.curr_qs1, c.curr_qs2, c.target_qs)
         IN  Done([c EXCEPT !.target_errs1 = r[1], !.target_errs2 = r[2]],
                  "target_error")

\* policy_loss, entropies = ...; update_params(self._policy_optim, policy_loss)
learn_policy(c, batch) ==
    LET r == calc_policy_loss(c.s, batch.states)
        stepped == update_params(c.s, "policy_optim", "policy", r.leaves)
    IN  Done([c EXCEPT
                !.policy_deposit = {n \in Nets : "policy" \in stepped.grad[n].from},
                !.policy_loss = r.loss, !.entropies = r.entropies,
                !.policy_critic = r.critic,
                !.applied = @ \cup AppliedBy(c.s, "policy_optim", "policy", r.leaves),
                !.s = stepped],
             "policy_step")

\* q_loss, mean_q1, mean_q2 = ...; update_params(self._q_optim, q_loss)
learn_critic(c, batch) ==
    IF calc_q_loss_raises(c.curr_qs1, c.curr_qs2, c.target_qs, c.target_leaves,
                          c.imp_ws1, c.imp_ws2)
    THEN Raise(c, "AssertionError", "calc_q_loss")
    ELSE LET r == calc_q_loss(c.curr_qs1, c.curr_qs2, c.target_qs,
                              c.imp_ws1, c.imp_ws2)
             leaves == [n \in (DOMAIN r.leaves) \cup c.imp_leaves |->
                          IF n \in DOMAIN r.leaves THEN r.leaves[n]
                          ELSE [i \in 1..Len(c.s[n]) |-> 0]]
         IN  Done([c EXCEPT
                     !.q_loss = r.loss,
                     !.q_loss_args = <<c.curr_qs1, c.curr_qs2, c.target_qs,
                                       c.imp_ws1, c.imp_ws2>>,
                     !.applied = @ \cup AppliedBy(c.s, "q_optim", "q", leaves),
                     !.s = update_params(c.s, "q_optim", "q", leaves)],
                  "critic_step")

\* entropy_loss = ...; update_params(self._alpha_optim, entropy_loss);
\* self._alpha = self._log_alpha.exp()
learn_entropy(c, batch) ==
    LET r == calc_entropy_loss(c.s, c.entropies)
        stepped == update_params(c.s, "alpha_optim", "entropy", r.leaves)
    IN  Done(Done([c EXCEPT
                !.entropy_loss = r.loss,
                !.applied = @ \cup AppliedBy(c.s, "alpha_optim", "entropy", r.leaves),
                !.s = [stepped EXCEPT !.alpha = Exp(stepped.log_alpha[1])]],
             "entropy_step"), "alpha")

\* err_loss = self.calc_error_loss(...); update_params(self._error_optim, err_loss)
learn_error(c, batch) ==
    LET r == calc_error_loss(c.s, c.curr_errs1, c.curr_errs2,
                             c.target_errs1, c.target_errs2)
        refreshed == [c.s EXCEPT !.tau1 = r.tau1, !.tau2 = r.tau2]
    IN  Done([c EXCEPT
                !.err_loss = r.loss,
                !.err_loss_args = <<c.curr_errs1, c.curr_errs2,
                                    c.target_errs1, c.target_errs2>>,
                !.applied = @ \cup AppliedBy(refreshed, "error_optim", "error", r.leaves),
                !.s = update_params(refreshed, "error_optim", "error", r.leaves)],
             "error_step")

SacTags == <<"loss/policy", "loss/Q", "loss/entropy", "stats/alpha",
             "stats/mean_Q1", "stats/mean_Q2", "stats/entropy">>

DisCorTags == <<"loss/policy", "loss/Q", "loss/entropy", "loss/error", "stats/alpha",
                "stats/mean_Q1", "stats/mean_Q2", "stats/entropy",
                "stats/tau1", "stats/tau2">>

\* faulty variant: the gate tested on the counter as it was before the increment
LogGate_before_count(s) == (s.learning_steps - 1) % s.log_interval = 0

\* if self._learning_steps % self._log_interval == 0: writer.add_scalar(...)
LogGate(s) == s.learning_steps % s.log_interval = 0

learn_log(c, batch) ==
    LET tags == IF c.s.algo = "DisCor" THEN DisCorTags ELSE SacTags
    IN  IF LogGate(c.s)
        THEN Done([c EXCEPT !.logged =
                      [i \in 1..Len(tags) |-> <<tags[i], c.s.learning_steps>>]], "log")
        ELSE c

Exec(step, c, batch) ==
    CASE step = "count"         -> learn_count(c, batch)
      [] step = "current_q"     -> learn_current_q(c, batch)
      [] step = "target_q"      -> learn_target_q(c, batch)
      [] step = "current_error" -> learn_current_error(c, batch)
      [] step = "target_error"  -> learn_target_error(c, batch)
      [] step = "policy"        -> learn_policy(c, batch)
      [] step = "critic"        -> learn_critic(c, batch)
      [] step = "entropy"       -> learn_entropy(c, batch)
      [] step = "error"         -> learn_error(c, batch)
      [] step = "log"           -> learn_log(c, batch)
      [] step = "update_target" ->
            Done([c EXCEPT !.s = IF c.s.algo = "DisCor" THEN DisCor_update_target(c.s)
                                 ELSE Algorithm_update_target(c.s)], "update_target")

\* the statements of a method run in order until one raises
RECURSIVE Run(_, _, _)
Run(steps, c, batch) ==
    IF steps = <<>> \/ c.outcome # "ok" THEN c
    ELSE Run(Tail(steps), Exec(Head(steps), c, batch), batch)

\* the body of SAC.learn
SAC_learn_body ==
    <<"count", "current_q", "target_q", "policy", "critic", "entropy", "log">>

\* faulty variant: a Polyak step of the target networks at the end of every learn()
DisCor_learn_body_soft_update ==
    <<"count", "current_q", "target_q", "current_error", "target_error",
      "policy", "critic", "entropy", "error", "update_target", "log">>

\* faulty variant: the critic step taken before the policy loss is evaluated
DisCor_learn_body_critic_first ==
    <<"count", "current_q", "target_q", "current_error", "target_error",
      "critic", "policy", "entropy", "error", "log">>

\* the body of DisCor.learn
DisCor_learn_body ==
    <<"count", "current_q", "target_q", "current_error", "target_error",
      "policy", "critic", "entropy", "error", "log">>

SAC_learn(s, batch) == Run(SAC_learn_body, Locals(s), batch)

DisCor_learn(s, batch) == Run(DisCor_learn_body, Locals(s), batch)

\* ------------------------------------------------------- state machine
Init ==
    /\ \E cfg \in Configs :
          self = NewLearner(cfg[1], cfg[2], cfg[3], cfg[4], cfg[5])
    /\ pre = self
    /\ call = [op |-> "init", batch |-> NoBatch, run |-> 0, c |-> Locals(<<>>)]
    /\ writer = <<>>

SacLearn ==
    /\ self.algo = "SAC"
    /\ self.learning_steps < MaxSteps
    /\ \E batch \in Batches :
          \E c \in {SAC_learn(self, batch)} :
              /\ self' = c.s
              /\ pre' = self
              /\ call' = [op |-> "learn", batch |-> batch, run |-> 0,
                          c |-> [c EXCEPT !.s = <<>>]]
              /\ writer' = writer \o c.logged

DisCorLearn ==
    /\ self.algo = "DisCor"
    /\ self.learning_steps < MaxSteps
    /\ \E batch \in Batches :
          \E c \in {DisCor_learn(self, batch)} :
              /\ self' = c.s
              /\ pre' = self
              /\ call' = [op |-> "learn", batch |-> batch, run |-> 0,
                          c |-> [c EXCEPT !.s = <<>>]]
              /\ writer' = writer \o c.logged

SacUpdateTarget ==
    /\ self.algo = "SAC"
    /\ call.run < MaxTargetRun
    /\ self' = Algorithm_update_target(self)
    /\ pre' = self
    /\ call' = [op |-> "update_target", batch |-> NoBatch, run |-> call.run + 1,
                c |-> Locals(<<>>)]
    /\ UNCHANGED writer

DisCorUpdateTarget ==
    /\ self.algo = "DisCor"
    /\ call.run < MaxTargetRun
    /\ self' = DisCor_update_target(self)
    /\ pre' = self
    /\ call' = [op |-> "update_target", batch |-> NoBatch, run |-> call.run + 1,
                c |-> Locals(<<>>)]
    /\ UNCHANGED writer

Next == SacLearn \/ DisCorLearn \/ SacUpdateTarget \/ DisCorUpdateTarget

Spec == Init /\ [][Next]_vars

\* ------------------------------------------------------------- claims
Learnt == call.op = "learn"

Completed == Learnt /\ call.c.outcome = "ok"

Aborted == Learnt /\ call.c.outcome # "ok"

Happened(event) == \E i \in 1..Len(call.c.events) : call.c.events[i] = event

\* x = (1 - c) * a + c * b rounded down, written out
IsPolyak(x, a, b, coef) ==
    IF Fin(a) /\ Fin(b)
    THEN /\ Fin(x)
         /\ coef[2] * x <= (coef[2] - coef[1]) * a + coef[1] * b
         /\ (coef[2] - coef[1]) * a + coef[1] * b < coef[2] * x + coef[2]
    ELSE ~Fin(x)

\* C1: a learn() call, whatever its batch and however it ends, leaves the
\* parameters of the target critic and of the target error network as they
\* were; only update_target() changes them.
C1_TargetsFrozenByLearn ==
    Learnt => /\ self.target_q_net = pre.target_q_net
              /\ self.target_error_net = pre.target_error_net

\* a completed learn() call that moved the online critic away from a target
\* that a Polyak step would have moved
C1_Witness ==
    /\ Completed
    /\ self.online_q_net # pre.online_q_net
    /\ soft_update(self.target_q_net, self.online_q_net, self.target_update_coef)
          # self.target_q_net

\* C2: one update_target() on a DisCor learner is one Polyak step of the
\* target critic toward the online critic and one of the target error
\* network toward the online error network, both with target_update_coef,
\* and nothing else of the learner changes.
C2_DisCorUpdateTarget ==
    (call.op = "update_target" /\ self.algo = "DisCor") =>
        /\ \A i \in 1..2 :
              /\ IsPolyak(self.target_q_net[i], pre.target_q_net[i],
                          pre.online_q_net[i], pre.target_update_coef)
              /\ IsPolyak(self.target_error_net[i], pre.target_error_net[i],
                          pre.online_error_net[i], pre.target_update_coef)
        /\ [self EXCEPT !.target_q_net = pre.target_q_net,
                        !.target_error_net = pre.target_error_net] = pre

\* an update_target() on a DisCor learner that moved both target networks
C2_Witness ==
    /\ call.op = "update_target"
    /\ self.algo = "DisCor"
    /\ self.target_q_net # pre.target_q_net
    /\ self.target_error_net # pre.target_error_net

LoggedSteps == {call.c.logged[i][2] : i \in 1..Len(call.c.logged)}

Params(s) ==
    << s.policy_net[1], s.online_q_net[1], s.online_q_net[2],
       s.online_error_net[1], s.online_error_net[2], s.log_alpha[1],
       s.alpha, s.tau1, s.tau2 >>

NonFiniteLoss ==
    \/ ~Fin(call.c.policy_loss)
    \/ ~Fin(call.c.q_loss)
    \/ ~Fin(call.c.entropy_loss)
    \/ ~Fin(call.c.err_loss)

\* C4: a learn() call in which a loss evaluates to a non-finite value aborts
\* before that loss's optimizer step, and no network parameter, log_alpha,
\* alpha or tau that was finite before the call is non-finite after it.
C4_NonFiniteLossAborts ==
    (Learnt /\ NonFiniteLoss) =>
        /\ call.c.outcome # "ok"
        /\ \A i \in 1..Len(Params(pre)) :
              Fin(Params(pre)[i]) => Fin(Params(self)[i])

\* C5: a learn() call that raises leaves the policy, critic and error
\* network parameters, log_alpha, alpha, tau1, tau2 and the step counter as
\* they were before the call.
C5_FailedLearnChangesNothing ==
    Aborted => /\ Params(self) = Params(pre)
               /\ self.learning_steps = pre.learning_steps

WeightsNormalised(w) ==
    /\ \A i \in 1..Len(w.num) : Fin(w.num[i]) /\ w.num[i] >= 0
    /\ Fin(w.den) /\ w.den > 0
    /\ Sum(w.num) = w.den

\* C6: for a non-empty batch and positive tau1, tau2 the importance weights
\* of each head are non-negative and sum to 1 over the batch, and they carry
\* no gradient to the online error network.
C6_WeightsSumToOne ==
    ( /\ Learnt
      /\ self.algo = "DisCor"
      /\ Happened("current_error")
      /\ Len(call.batch.states) > 0
      /\ pre.tau1 > 0
      /\ pre.tau2 > 0 ) =>
        /\ WeightsNormalised(call.c.imp_ws1)
        /\ WeightsNormalised(call.c.imp_ws2)
        /\ call.c.imp_leaves = {}

\* the bootstrapped value of the Q target of row i, from the learner as the
\* call found it
NextQ(i) ==
    LET ns == call.batch.next_states[i]
    IN  Add(Min(Add(pre.target_q_net[1], ns), Add(pre.target_q_net[2], ns)),
            Scaled(pre.alpha, Add(pre.policy_net[1], ns)))

NextErr(k, i) == Add(pre.target_error_net[k], call.batch.next_states[i])

TdGap(k, i) ==
    Abs(Sub(At(IF k = 1 THEN call.c.curr_qs1 ELSE call.c.curr_qs2, i),
            At(call.c.target_qs, i)))

TargetErrs(k) == IF k = 1 THEN call.c.target_errs1 ELSE call.c.target_errs2

\* C7: for a row with done = 1 the Q target is the reward and the error
\* target of head i is |curr_Q_i - target_Q|, whatever the target networks
\* give; for done = 0 they are reward + discount * (min target Q + alpha *
\* next entropy) and |curr_Q_i - target_Q| + discount * next_error_i, with
\* one discount factor throughout.
C7_TerminalRowsDoNotBootstrap ==
    /\ (Learnt /\ Happened("target_q")) =>
          \A i \in 1..Len(call.c.target_qs) :
              IF call.batch.dones[i] = 1
              THEN call.c.target_qs[i] = call.batch.rewards[i]
              ELSE call.c.target_qs[i] =
                      Add(call.batch.rewards[i],
                          Frac(pre.discount[1], pre.discount[2], NextQ(i)))
    /\ (Learnt /\ Happened("target_error")) =>
          /\ pre.gamma = pre.discount
          /\ \A k \in 1..2 : \A i \in 1..Len(TargetErrs(k)) :
              IF At(call.batch.dones, i) = 1
              THEN TargetErrs(k)[i] = TdGap(k, i)
              ELSE TargetErrs(k)[i] =
                      Add(TdGap(k, i),
                          Frac(pre.discount[1], pre.discount[2],
                               At([j \in 1..Len(call.batch.next_states) |->
                                      NextErr(k, j)], i)))

\* the events of one DisCor.learn() call, in the order claimed
ClaimedOrder ==
    <<"count", "current_q", "target_q", "current_error", "target_error",
      "policy_step", "critic_step", "entropy_step", "alpha", "error_step">>

EventsBeforeLog ==
    SelectSeq(call.c.events, LAMBDA e : e # "log")

IsPrefix(a, b) == Len(a) <= Len(b) /\ a = SubSeq(b, 1, Len(a))

\* what the learner as the call found it gives for the batch
PreQs == calc_current_q(pre, call.batch.states)

PreTargetQs ==
    calc_target_q(pre, call.batch.rewards, call.batch.next_states, call.batch.dones)

PreErrors == calc_current_error(pre, call.batch.states)

PreTargetErrs ==
    calc_target_error(pre, call.batch.next_states, call.batch.dones,
                      PreQs[1], PreQs[2], PreTargetQs)

\* C8: the events of a DisCor.learn() call occur in the order current Q,
\* target Q, current error and importance weights, target error, policy
\* step, critic step, entropy step, alpha := exp(log_alpha), error step (a
\* call that raises stops part-way); the policy loss sees the online critic
\* as it was before the call's critic step, and the critic and error losses
\* use the Q values, weights and error targets computed from the parameters
\* the call started with.
C8_DisCorLearnOrder ==
    (Learnt /\ self.algo = "DisCor") =>
        /\ IsPrefix(EventsBeforeLog, ClaimedOrder)
        /\ call.c.outcome = "ok" => EventsBeforeLog = ClaimedOrder
        /\ Happened("policy_step") => call.c.policy_critic = pre.online_q_net
        /\ Happened("critic_step") =>
              call.c.q_loss_args =
                 <<PreQs[1], PreQs[2], PreTargetQs, PreErrors.imp_ws1, PreErrors.imp_ws2>>
        /\ Happened("error_step") =>
              call.c.err_loss_args =
                 <<PreErrors.curr_errs1, PreErrors.curr_errs2,
                   PreTargetErrs[1], PreTargetErrs[2]>>
        /\ Happened("alpha") => self.alpha = Exp(self.log_alpha[1])

\* a completed DisCor.learn() call whose policy, critic and error steps each
\* moved their parameters
C8_Witness ==
    /\ Completed
    /\ self.algo = "DisCor"
    /\ self.policy_net # pre.policy_net
    /\ self.online_q_net # pre.online_q_net
    /\ self.online_error_net # pre.online_error_net
    /\ AllFin(self.online_q_net)

Between(x, a, b) ==
    /\ Fin(x) /\ Fin(a) /\ Fin(b)
    /\ (IF a <= b THEN a ELSE b) <= x
    /\ x <= (IF a <= b THEN b ELSE a)

PreMeanErr(k) == Mean(Twin(pre.online_error_net, call.batch.states)[k])

TauOf(s, k) == IF k = 1 THEN s.tau1 ELSE s.tau2

OwnGradient ==
    { <<"policy_optim", "policy_net", "policy">>,
      <<"q_optim", "online_q_net", "q">>,
      <<"alpha_optim", "log_alpha", "entropy">>,
      <<"error_optim", "online_error_net", "error">> }

\* C10: backpropagating the policy loss leaves gradient on the policy, the
\* online critic and log_alpha, yet every optimizer step of a learn() call
\* applies to each parameter tensor of its group only the gradient of its own
\* loss: nothing left by another loss or by an earlier call is applied.
C10_OwnGradientOnly ==
    Learnt =>
        /\ call.c.applied \subseteq OwnGradient
        /\ Happened("policy_step") =>
              call.c.policy_deposit = {"policy_net", "online_q_net", "log_alpha"}
        /\ call.c.outcome = "ok" =>
              call.c.applied =
                 IF self.algo = "DisCor" THEN OwnGradient
                 ELSE OwnGradient \ {<<"error_optim", "online_error_net", "error">>}
        /\ \A n \in {"policy_net", "online_q_net", "log_alpha", "online_error_net"} :
              self[n] # pre[n] => \E a \in call.c.applied : a[2] = n

\* a completed learn() call that started with gradient of an earlier call
\* still stored on the online critic and on log_alpha
C10_Witness ==
    /\ Completed
    /\ pre.grad["online_q_net"].from # {}
    /\ pre.grad["log_alpha"].from # {}
    /\ self.online_q_net # pre.online_q_net

====
